---- MODULE Spec2Model ----
(***************************************************************************)
(* Model of formol.py: the Formol parser (_Parser), the formatter          *)
(* (_Formatter) and the three public functions format,                     *)
(* format_c_block_comment and format_prefixed_block_comment.               *)
(*                                                                         *)
(* A Python string is a sequence of characters; a character is a one-      *)
(* character TLA+ string, except for the non-ASCII characters the code     *)
(* names, which are written as the words below (each is ONE character, so  *)
(* Len agrees with Python's len):                                          *)
(*   "BULLET" U+2022   "TRIBULLET" U+2023   "HYBULLET" U+2043              *)
(*   "HEAVY"  U+2501   "LIGHT"     U+2500   "DOTS"     U+2504              *)
(*   "VBAR"   U+2502   "TL" U+250C  "TR" U+2510  "BL" U+2514  "BR" U+2518  *)
(*   "HVBAR"  U+2503   "TEE" U+251C                                        *)
(* and "BACKTICK" is U+0060, which a TLA+ string cannot hold.              *)
(* A raised Python exception is the record [ok |-> FALSE, err |-> name].   *)
(* The comments quote the code's regular expressions with a space between  *)
(* a star and a closing parenthesis.                                       *)
(***************************************************************************)
EXTENDS Integers, Sequences, FiniteSets, TLC

----------------------------------------------------------------------------
(* Characters and strings *)

\* str.isspace(): the characters \s matches and strip() removes
is_space(c) == c \in {" ", "\t"}

\* the characters \d matches
is_digit(c) == c \in {"0", "1", "2", "3", "4", "5", "6", "7", "8", "9"}

\* the characters [a-z] matches
is_lower(c) == c \in {"a", "b", "c", "d", "e", "f", "g", "h", "i", "j", "k",
                      "l", "m", "n", "o", "p", "q", "r", "s", "t", "u", "v",
                      "w", "x", "y", "z"}

\* s[n:]
str_from(s, n) == IF n >= Len(s) THEN <<>> ELSE SubSeq(s, n + 1, Len(s))

\* s[:n]
str_to(s, n) == IF n <= 0 THEN <<>> ELSE IF n >= Len(s) THEN s ELSE SubSeq(s, 1, n)

\* s.startswith(p)
startswith(s, p) == Len(s) >= Len(p) /\ SubSeq(s, 1, Len(p)) = p

\* s.rstrip()
RECURSIVE rstrip(_)
rstrip(s) ==
    IF Len(s) = 0 THEN s
    ELSE IF is_space(s[Len(s)]) THEN rstrip(SubSeq(s, 1, Len(s) - 1))
    ELSE s

\* s.lstrip()
RECURSIVE lstrip(_)
lstrip(s) ==
    IF Len(s) = 0 THEN s
    ELSE IF is_space(s[1]) THEN lstrip(Tail(s))
    ELSE s

\* s.strip()
strip(s) == lstrip(rstrip(s))

\* ch * count (the empty string when count <= 0)
str_mul(ch, count) == [i \in 1..count |-> ch]

\* s.ljust(width)
ljust(s, width) == s \o str_mul(" ", width - Len(s))

\* True if every character of s from index `from` (1-based) on is whitespace
all_space_from(s, from) == \A i \in from..Len(s) : is_space(s[i])

\* sep.join(strs)
RECURSIVE str_join(_, _)
str_join(sep, strs) ==
    IF Len(strs) = 0 THEN <<>>
    ELSE IF Len(strs) = 1 THEN strs[1]
    ELSE strs[1] \o sep \o str_join(sep, Tail(strs))

\* ''.join(strs)
concat(strs) == str_join(<<>>, strs)

\* the line boundaries of str.splitlines() that the model's alphabet holds
is_linebreak(c) == c = "\n"

\* text.splitlines(): a final line break ends the last line and opens no
\* new one; the empty text has no line
RECURSIVE splitlines_from(_, _, _)
splitlines_from(s, i, cur) ==
    IF i > Len(s) THEN (IF Len(cur) = 0 THEN <<>> ELSE <<cur>>)
    ELSE IF is_linebreak(s[i])
         THEN <<cur>> \o (IF i = Len(s) THEN <<>> ELSE splitlines_from(s, i + 1, <<>>))
    ELSE IF i = Len(s) THEN <<Append(cur, s[i])>>
    ELSE splitlines_from(s, i + 1, Append(cur, s[i]))

splitlines(s) == splitlines_from(s, 1, <<>>)

\* `name = val`, then the rest of the function body: a local variable of
\* the code is bound once and read by name
Bind(val, Body(_)) == Body(val)

\* a raised exception
Raise(name) == [ok |-> FALSE, err |-> name]

----------------------------------------------------------------------------
(* _remove_trailing_empty_lines and _indent_str *)

RECURSIVE remove_trailing_loop(_)
remove_trailing_loop(new_lines) ==
    IF Len(new_lines) = 0 THEN Raise("IndexError")
    ELSE IF new_lines[Len(new_lines)] # <<>> THEN [ok |-> TRUE, lines |-> new_lines]
    ELSE remove_trailing_loop(SubSeq(new_lines, 1, Len(new_lines) - 1))

\* `lines` without its trailing empty lines; the assertion fails on an
\* empty list, and a list of empty lines only is emptied and then indexed
remove_trailing_empty_lines(lines) ==
    IF ~(Len(lines) >= 1) THEN Raise("AssertionError")
    ELSE remove_trailing_loop(lines)

indent_str(count) == str_mul(" ", count)

----------------------------------------------------------------------------
(* _Parser: the cursor `at` is an explicit parameter and result.  A        *)
(* try-parse rule returns NoMatch (Python's None), Matched (an element)    *)
(* or Raised (an exception), each with the cursor as the rule leaves it.   *)

NoMatch(at) == [st |-> "none", at |-> at]

Matched(elem, at) == [st |-> "elem", elem |-> elem, at |-> at]

Raised(err) == [st |-> "raise", err |-> err]

is_done(lines, at) == at >= Len(lines)

cur_line(lines, at) == lines[at + 1]

cur_line_is_empty(lines, at) == Len(cur_line(lines, at)) = 0

next_line(lines, at) ==
    IF Len(lines) = 1 THEN <<>>
    ELSE IF at >= Len(lines) - 1 THEN <<>>
    ELSE lines[at + 2]

RECURSIVE skip_empty_lines(_, _)
skip_empty_lines(lines, at) ==
    IF ~is_done(lines, at) /\ cur_line_is_empty(lines, at)
    THEN skip_empty_lines(lines, at + 1)
    ELSE at

\* _Parser(lines).elems, defined after the rules it tries
RECURSIVE Parser(_)

\* rf'^{prefix} (\S.* )': the text after the prefix and one space
match_heading_prefix(s, prefix) ==
    /\ startswith(s, prefix \o <<" ">>)
    /\ Len(s) >= Len(prefix) + 2
    /\ ~is_space(s[Len(prefix) + 2])

\* fr'^{underscore_ch}+\s*$'
match_underline(s, underscore_ch) ==
    \E k \in 1..Len(s) :
        /\ \A i \in 1..k : s[i] = underscore_ch
        /\ all_space_from(s, k + 1)

\* a faulty _try_parse_heading: the prefix form advances by two lines, as
\* the underline form does
try_parse_heading_two_lines(lines, at, elem_type, prefix, underscore_ch) ==
    IF match_heading_prefix(cur_line(lines, at), prefix) /\ Len(next_line(lines, at)) = 0
    THEN Matched([type |-> elem_type,
                  text |-> str_from(cur_line(lines, at), Len(prefix) + 1)], at + 2)
    ELSE IF match_underline(next_line(lines, at), underscore_ch)
    THEN Matched([type |-> elem_type, text |-> cur_line(lines, at)], at + 2)
    ELSE NoMatch(at)

try_parse_heading(lines, at, elem_type, prefix, underscore_ch) ==
    IF match_heading_prefix(cur_line(lines, at), prefix) /\ Len(next_line(lines, at)) = 0
    THEN Matched([type |-> elem_type,
                  text |-> str_from(cur_line(lines, at), Len(prefix) + 1)], at + 1)
    ELSE IF match_underline(next_line(lines, at), underscore_ch)
    THEN Matched([type |-> elem_type, text |-> cur_line(lines, at)], at + 2)
    ELSE NoMatch(at)

try_parse_h1(lines, at) == try_parse_heading(lines, at, "H1", <<"=">>, "HEAVY")

try_parse_h2(lines, at) == try_parse_heading(lines, at, "H2", <<"=", "=">>, "LIGHT")

unindent_line(line, count) ==
    IF startswith(line, indent_str(count)) THEN str_from(line, count) ELSE line

unindent_lines(lines, count) == [i \in 1..Len(lines) |-> unindent_line(lines[i], count)]

\* the lengths of group 1 with which r'^(\S.* ):: (\S.* )' can match
single_line_dt_splits(s) ==
    {k \in 1..(Len(s) - 4) :
        /\ ~is_space(s[1])
        /\ s[k + 1] = ":" /\ s[k + 2] = ":" /\ s[k + 3] = " "
        /\ ~is_space(s[k + 4])}

\* the greedy (\S.* ) takes the longest
max_of(S) == CHOOSE k \in S : \A j \in S : j <= k

try_parse_single_line_dl_item(lines, at) ==
    Bind(cur_line(lines, at), LAMBDA s :
    Bind(single_line_dt_splits(s), LAMBDA ks :
    IF ks = {} THEN NoMatch(at)
        ELSE Bind(max_of(ks), LAMBDA k :
             Bind(Parser(<<str_from(s, k + 3)>>), LAMBDA sub :
             IF ~sub.ok THEN Raised(sub.err)
                 ELSE [st |-> "elem", at |-> at + 1,
                       item |-> [terms |-> <<str_to(s, k)>>, elems |-> sub.elems]]))))

\* r'^(\S.* ):$'
match_dt(s) == Len(s) >= 2 /\ ~is_space(s[1]) /\ s[Len(s)] = ":"

\* r'^    .'
match_indented_content(s) == startswith(s, indent_str(4)) /\ Len(s) >= 5

\* r'^    \S'
match_indented_nonspace(s) == match_indented_content(s) /\ ~is_space(s[5])

\* the terms loop of _try_parse_dl_item
RECURSIVE dl_terms_loop(_, _, _)
dl_terms_loop(lines, at, terms) ==
    IF ~is_done(lines, at) /\ match_dt(cur_line(lines, at))
    THEN dl_terms_loop(lines, at + 1,
                       Append(terms, str_to(cur_line(lines, at), Len(cur_line(lines, at)) - 1)))
    ELSE [terms |-> terms, at |-> at]

\* the content loop shared by the definition, indented preformatted,
\* unordered item and ordered item rules: keep empty lines and the lines
\* that match fr'^{" " * indent_len}.'
RECURSIVE content_lines_loop(_, _, _, _)
content_lines_loop(lines, at, acc, indent_len) ==
    IF is_done(lines, at) THEN [lines |-> acc, at |-> at]
    ELSE IF cur_line_is_empty(lines, at)
    THEN content_lines_loop(lines, at + 1, Append(acc, <<>>), indent_len)
    ELSE IF startswith(cur_line(lines, at), indent_str(indent_len))
            /\ Len(cur_line(lines, at)) >= indent_len + 1
    THEN content_lines_loop(lines, at + 1, Append(acc, cur_line(lines, at)), indent_len)
    ELSE [lines |-> acc, at |-> at]

\* _try_parse_dl_item without `self._at = begin_at` when the line after
\* the terms starts no definition
try_parse_dl_item_no_restore(lines, at) ==
    Bind(try_parse_single_line_dl_item(lines, at), LAMBDA single :
    IF single.st # "none" THEN single
        ELSE Bind(dl_terms_loop(lines, at, <<>>), LAMBDA t :
             IF Len(t.terms) = 0 \/ is_done(lines, t.at) THEN NoMatch(at)
                 ELSE IF ~match_indented_nonspace(cur_line(lines, t.at))
                 THEN NoMatch(t.at)
                 ELSE Bind(content_lines_loop(lines, t.at, <<>>, 4), LAMBDA c :
                      Bind(remove_trailing_empty_lines(c.lines), LAMBDA def_lines :
                      IF ~def_lines.ok THEN Raised(def_lines.err)
                          ELSE Bind(Parser(unindent_lines(def_lines.lines, 4)), LAMBDA sub :
                               IF ~sub.ok THEN Raised(sub.err)
                                   ELSE [st |-> "elem", at |-> c.at,
                                         item |-> [terms |-> t.terms, elems |-> sub.elems]])))))

try_parse_dl_item(lines, at) ==
    Bind(try_parse_single_line_dl_item(lines, at), LAMBDA single :
    IF single.st # "none" THEN single
        ELSE Bind(at, LAMBDA begin_at :
             Bind(dl_terms_loop(lines, at, <<>>), LAMBDA t :
             IF Len(t.terms) = 0 THEN NoMatch(begin_at)
                 ELSE IF is_done(lines, t.at) \/ ~match_indented_nonspace(cur_line(lines, t.at))
                 THEN NoMatch(begin_at)
                 ELSE Bind(content_lines_loop(lines, t.at, <<>>, 4), LAMBDA c :
                      Bind(remove_trailing_empty_lines(c.lines), LAMBDA def_lines :
                      IF ~def_lines.ok THEN Raised(def_lines.err)
                          ELSE Bind(Parser(unindent_lines(def_lines.lines, 4)), LAMBDA sub :
                               IF ~sub.ok THEN Raised(sub.err)
                                   ELSE [st |-> "elem", at |-> c.at,
                                         item |-> [terms |-> t.terms, elems |-> sub.elems]]))))))

RECURSIVE dl_loop(_, _, _)
dl_loop(lines, at, items) ==
    Bind(skip_empty_lines(lines, at), LAMBDA at1 :
    IF is_done(lines, at1) THEN [st |-> "items", items |-> items, at |-> at1]
        ELSE Bind(try_parse_dl_item(lines, at1), LAMBDA item :
             IF item.st = "raise" THEN item
                 ELSE IF item.st = "none" THEN [st |-> "items", items |-> items, at |-> item.at]
                 ELSE dl_loop(lines, item.at, Append(items, item.item))))

try_parse_dl(lines, at) ==
    Bind(dl_loop(lines, at, <<>>), LAMBDA r :
    IF r.st = "raise" THEN r
        ELSE IF Len(r.items) >= 1 THEN Matched([type |-> "Dl", items |-> r.items], r.at)
        ELSE NoMatch(r.at))

try_parse_pre_indented(lines, at) ==
    IF ~match_indented_nonspace(cur_line(lines, at)) THEN NoMatch(at)
    ELSE Bind(content_lines_loop(lines, at, <<>>, 4), LAMBDA c :
         Bind(remove_trailing_empty_lines(c.lines), LAMBDA kept :
         IF ~kept.ok THEN Raised(kept.err)
             ELSE Matched([type |-> "Pre", lines |-> unindent_lines(kept.lines, 4)], c.at)))

\* the content loop of _try_parse_delim_block
RECURSIVE delim_block_loop(_, _, _, _)
delim_block_loop(lines, at, acc, delim) ==
    IF is_done(lines, at) THEN [lines |-> acc, at |-> at]
    ELSE IF cur_line(lines, at) = delim THEN [lines |-> acc, at |-> at + 1]
    ELSE delim_block_loop(lines, at + 1, Append(acc, cur_line(lines, at)), delim)

\* returns the content lines ([st |-> "lines"]), None or an exception
try_parse_delim_block(lines, at, delim) ==
    IF cur_line(lines, at) # delim THEN NoMatch(at)
    ELSE Bind(delim_block_loop(lines, at + 1, <<>>, delim), LAMBDA c :
         Bind(remove_trailing_empty_lines(c.lines), LAMBDA kept :
         IF ~kept.ok THEN Raised(kept.err)
             ELSE IF Len(kept.lines) >= 1
             THEN [st |-> "lines", lines |-> kept.lines, at |-> c.at]
             ELSE NoMatch(c.at)))

try_parse_pre_delim(lines, at) ==
    Bind(try_parse_delim_block(lines, at, <<"BACKTICK", "BACKTICK", "BACKTICK">>), LAMBDA r :
    IF r.st = "lines" THEN Matched([type |-> "Pre", lines |-> r.lines], r.at)
        ELSE r)

\* r'^[*<BULLET><TRIBULLET><HYBULLET>] (\S.* )'
match_bullet_line(s) ==
    /\ Len(s) >= 3
    /\ s[1] \in {"*", "BULLET", "TRIBULLET", "HYBULLET"}
    /\ s[2] = " "
    /\ ~is_space(s[3])

\* the item rules: the first line without its marker, then the content
\* lines, unindented by the marker's length and parsed
parse_item_body(lines, at, prefix_len) ==
    Bind(content_lines_loop(lines, at + 1,
                                <<str_from(cur_line(lines, at), prefix_len)>>, prefix_len), LAMBDA c :
    Bind(remove_trailing_empty_lines(c.lines), LAMBDA kept :
    IF ~kept.ok THEN Raised(kept.err)
        ELSE Bind(Parser(unindent_lines(kept.lines, prefix_len)), LAMBDA sub :
             IF ~sub.ok THEN Raised(sub.err)
                 ELSE [st |-> "elem", at |-> c.at, item |-> [elems |-> sub.elems]])))

try_parse_ul_item(lines, at) ==
    IF ~match_bullet_line(cur_line(lines, at)) THEN NoMatch(at)
    ELSE parse_item_body(lines, at, 2)

\* the number of spaces of s from index i (1-based) on
RECURSIVE count_spaces(_, _)
count_spaces(s, i) == IF i <= Len(s) /\ s[i] = " " THEN 1 + count_spaces(s, i + 1) ELSE 0

\* the number of digits of s from index i (1-based) on
RECURSIVE count_digits(_, _)
count_digits(s, i) == IF i <= Len(s) /\ is_digit(s[i]) THEN 1 + count_digits(s, i + 1) ELSE 0

\* len(group(1)) of r'^((?: *\d+)?\. |[a-z]\) )(\S.* )', or 0 without a match
ol_item_prefix_len(s) ==
    Bind(count_spaces(s, 1), LAMBDA k :
    Bind(count_digits(s, k + 1), LAMBDA d :
    Bind(k + d, LAMBDA n :
    IF d >= 1 /\ Len(s) >= n + 3 /\ s[n + 1] = "." /\ s[n + 2] = " " /\ ~is_space(s[n + 3])
        THEN n + 2
        ELSE IF Len(s) >= 3 /\ s[1] = "." /\ s[2] = " " /\ ~is_space(s[3])
        THEN 2
        ELSE IF Len(s) >= 4 /\ is_lower(s[1]) /\ s[2] = ")" /\ s[3] = " " /\ ~is_space(s[4])
        THEN 3
        ELSE 0)))

try_parse_ol_item(lines, at) ==
    IF ol_item_prefix_len(cur_line(lines, at)) = 0 THEN NoMatch(at)
    ELSE parse_item_body(lines, at, ol_item_prefix_len(cur_line(lines, at)))

RECURSIVE simple_list_loop(_, _, _, _)
simple_list_loop(lines, at, items, elem_type) ==
    Bind(skip_empty_lines(lines, at), LAMBDA at1 :
    IF is_done(lines, at1) THEN [st |-> "items", items |-> items, at |-> at1]
        ELSE Bind(IF elem_type = "Ul" THEN try_parse_ul_item(lines, at1)
                         ELSE try_parse_ol_item(lines, at1), LAMBDA item :
             IF item.st = "raise" THEN item
                 ELSE IF item.st = "none" THEN [st |-> "items", items |-> items, at |-> item.at]
                 ELSE simple_list_loop(lines, item.at, Append(items, item.item), elem_type)))

\* a faulty _try_parse_simple_list: the list is returned without the test
\* that it has an item
try_parse_simple_list_untested(lines, at, elem_type) ==
    Bind(simple_list_loop(lines, at, <<>>, elem_type), LAMBDA r :
    IF r.st = "raise" THEN r
        ELSE Matched([type |-> elem_type, items |-> r.items], r.at))

try_parse_simple_list(lines, at, elem_type) ==
    Bind(simple_list_loop(lines, at, <<>>, elem_type), LAMBDA r :
    IF r.st = "raise" THEN r
        ELSE IF Len(r.items) >= 1 THEN Matched([type |-> elem_type, items |-> r.items], r.at)
        ELSE NoMatch(r.at))

try_parse_ul(lines, at) == try_parse_simple_list(lines, at, "Ul")

try_parse_ol(lines, at) == try_parse_simple_list(lines, at, "Ol")

\* the characters [\([{] matches
is_open_bracket(c) == c \in {"(", "[", "{"}

min_of(S) == CHOOSE k \in S : \A j \in S : k <= j

\* the end (1-based, exclusive) of \S* from index i on
RECURSIVE nonspace_end(_, _)
nonspace_end(text, i) ==
    IF i <= Len(text) /\ ~is_space(text[i]) THEN nonspace_end(text, i + 1) ELSE i

\* _literal_pat.match(text, p - 1): the end (1-based, exclusive) of the
\* match of r'[\([{]?<BACKTICK>[^<BACKTICK>]*<BACKTICK>\S*' at index p, or 0
match_literal(text, p) ==
    Bind(IF is_open_bracket(text[p]) /\ p + 1 <= Len(text) /\ text[p + 1] = "BACKTICK"
                THEN p + 1
                ELSE IF text[p] = "BACKTICK" THEN p
                ELSE 0, LAMBDA open :
    Bind({q \in (open + 1)..Len(text) : text[q] = "BACKTICK"}, LAMBDA closes :
    IF open = 0 \/ closes = {} THEN 0
        ELSE nonspace_end(text, min_of(closes) + 1)))

\* the lookahead (?=[\([{]?<BACKTICK>| |$) at index j
word_lookahead(text, j) ==
    \/ j > Len(text)
    \/ text[j] = " "
    \/ text[j] = "BACKTICK"
    \/ is_open_bracket(text[j]) /\ j + 1 <= Len(text) /\ text[j + 1] = "BACKTICK"

\* _word_pat.match(text, p - 1): the end (1-based, exclusive) of the lazy
\* (.+?), which always matches before the end of the text
match_word(text, p) == min_of({j \in (p + 1)..(Len(text) + 1) : word_lookahead(text, j)})

\* the scan loop of _p_elem_from_text
RECURSIVE p_scan(_, _, _)
p_scan(text, p, words) ==
    IF p > Len(text) THEN words
    ELSE IF match_literal(text, p) # 0
    THEN p_scan(text, match_literal(text, p),
                Append(words, SubSeq(text, p, match_literal(text, p) - 1)))
    ELSE Bind(strip(SubSeq(text, p, match_word(text, p) - 1)), LAMBDA word :
         p_scan(text, match_word(text, p),
                    IF Len(word) >= 1 THEN Append(words, word) ELSE words))

p_elem_from_text(text) == [type |-> "P", words |-> p_scan(text, 1, <<>>)]

\* r'^\. \S.*'
match_dot_item(s) == Len(s) >= 3 /\ s[1] = "." /\ s[2] = " " /\ ~is_space(s[3])

RECURSIVE p_loop(_, _, _)
p_loop(lines, at, acc) ==
    IF is_done(lines, at) THEN [lines |-> acc, at |-> at]
    ELSE IF \/ cur_line_is_empty(lines, at)
            \/ match_bullet_line(cur_line(lines, at))
            \/ match_dot_item(cur_line(lines, at))
    THEN [lines |-> acc, at |-> at]
    ELSE p_loop(lines, at + 1, Append(acc, cur_line(lines, at)))

try_parse_p(lines, at) ==
    Bind(p_loop(lines, at, <<>>), LAMBDA r :
    IF Len(r.lines) >= 1
        THEN Matched(p_elem_from_text(str_join(<<" ">>, r.lines)), r.at)
        ELSE NoMatch(r.at))

\* '***' or r'^<DOTS>{3,}$'
try_parse_hr(lines, at) ==
    IF \/ cur_line(lines, at) = <<"*", "*", "*">>
       \/ Len(cur_line(lines, at)) >= 3
          /\ \A i \in 1..Len(cur_line(lines, at)) : cur_line(lines, at)[i] = "DOTS"
    THEN Matched([type |-> "Hr"], at + 1)
    ELSE NoMatch(at)

RECURSIVE blockquote_prefixed_loop(_, _, _)
blockquote_prefixed_loop(lines, at, acc) ==
    IF is_done(lines, at) THEN [lines |-> acc, at |-> at]
    ELSE IF cur_line(lines, at) = <<">">>
    THEN blockquote_prefixed_loop(lines, at + 1, Append(acc, <<>>))
    ELSE IF startswith(cur_line(lines, at), <<">", " ">>)
    THEN blockquote_prefixed_loop(lines, at + 1, Append(acc, str_from(cur_line(lines, at), 2)))
    ELSE [lines |-> acc, at |-> at]

\* the element of type elem_type that holds the elements of `lines`
nested_elem(elem_type, lines, at) ==
    Bind(Parser(lines), LAMBDA sub :
    IF ~sub.ok THEN Raised(sub.err)
        ELSE Matched([type |-> elem_type, elems |-> sub.elems], at))

try_parse_blockquote_prefixed(lines, at) ==
    Bind(blockquote_prefixed_loop(lines, at, <<>>), LAMBDA r :
    IF Len(r.lines) >= 1 THEN nested_elem("Blockquote", r.lines, r.at)
        ELSE NoMatch(r.at))

try_parse_blockquote_delim(lines, at) ==
    Bind(try_parse_delim_block(lines, at, <<">", ">", ">">>), LAMBDA r :
    IF r.st = "lines" THEN nested_elem("Blockquote", r.lines, r.at)
        ELSE r)

\* the box-drawing characters of _verbatim_line_pat that the model's
\* alphabet holds
is_verbatim_box_char(c) == c \in {"VBAR", "HVBAR", "TL", "BL", "TEE"}

\* r'^(?: *\[\d+\]: [hf]|[<box-drawing characters>]).+'
match_verbatim_line(s) ==
    \/ Len(s) >= 2 /\ is_verbatim_box_char(s[1])
    \/ Bind(count_spaces(s, 1), LAMBDA k :
       Bind(count_digits(s, k + 2), LAMBDA d :
       Bind(k + 1 + d, LAMBDA n :
       /\ Len(s) >= n + 5
           /\ s[k + 1] = "["
           /\ d >= 1
           /\ s[n + 1] = "]" /\ s[n + 2] = ":" /\ s[n + 3] = " "
           /\ s[n + 4] \in {"h", "f"})))

RECURSIVE verbatim_loop(_, _, _)
verbatim_loop(lines, at, acc) ==
    IF ~is_done(lines, at) /\ match_verbatim_line(cur_line(lines, at))
    THEN verbatim_loop(lines, at + 1, Append(acc, cur_line(lines, at)))
    ELSE [lines |-> acc, at |-> at]

try_parse_verbatim(lines, at) ==
    Bind(verbatim_loop(lines, at, <<>>), LAMBDA r :
    IF Len(r.lines) >= 1 THEN Matched([type |-> "Verbatim", lines |-> r.lines], r.at)
        ELSE NoMatch(r.at))

try_parse_admon_box_delim(lines, at) ==
    Bind(try_parse_delim_block(lines, at, <<"!", "!", "!">>), LAMBDA r :
    IF r.st = "lines" THEN nested_elem("AdmonBox", r.lines, r.at)
        ELSE r)

admon_tags ==
    {<<"C", "A", "U", "T", "I", "O", "N">>,
     <<"I", "M", "P", "O", "R", "T", "A", "N", "T">>,
     <<"N", "O", "T", "E">>,
     <<"T", "I", "P">>,
     <<"W", "A", "R", "N", "I", "N", "G">>}

\* r'^<VBAR> (?:CAUTION|IMPORTANT|NOTE|TIP|WARNING): '
match_admon_tag_line(s) ==
    \E tag \in admon_tags : startswith(s, <<"VBAR", " ">> \o tag \o <<":", " ">>)

\* r'^<VBAR>?\s*$'
match_admon_blank(s) ==
    \/ all_space_from(s, 1)
    \/ Len(s) >= 1 /\ s[1] = "VBAR" /\ all_space_from(s, 2)

\* the end (1-based, exclusive) of [^<VBAR>]* from index i on
RECURSIVE non_vbar_end(_, _)
non_vbar_end(s, i) ==
    IF i <= Len(s) /\ s[i] # "VBAR" THEN non_vbar_end(s, i + 1) ELSE i

\* re.match(r'[<VBAR> ] ([^<VBAR>]* )', s)
match_admon_content(s) == Len(s) >= 2 /\ s[1] \in {"VBAR", " "} /\ s[2] = " "

admon_content(s) ==
    IF non_vbar_end(s, 3) <= 3 THEN <<>> ELSE SubSeq(s, 3, non_vbar_end(s, 3) - 1)

RECURSIVE admon_box_loop(_, _, _)
admon_box_loop(lines, at, acc) ==
    IF is_done(lines, at) THEN [lines |-> acc, at |-> at]
    ELSE IF startswith(cur_line(lines, at), <<"BL">>) THEN [lines |-> acc, at |-> at + 1]
    ELSE IF match_admon_blank(cur_line(lines, at))
    THEN admon_box_loop(lines, at + 1, Append(acc, <<>>))
    ELSE IF match_admon_content(cur_line(lines, at))
    THEN admon_box_loop(lines, at + 1, Append(acc, rstrip(admon_content(cur_line(lines, at)))))
    ELSE admon_box_loop(lines, at + 1, acc)

try_parse_admon_box(lines, at) ==
    IF ~startswith(cur_line(lines, at), <<"TL">>) THEN NoMatch(at)
    ELSE IF ~match_admon_tag_line(next_line(lines, at)) THEN NoMatch(at)
    ELSE Bind(admon_box_loop(lines, at + 1, <<>>), LAMBDA r :
         nested_elem("AdmonBox", r.lines, r.at))

\* funcs[i - 1]() of _parse
try_rule(i, lines, at) ==
    CASE i = 1 -> try_parse_h1(lines, at)
      [] i = 2 -> try_parse_h2(lines, at)
      [] i = 3 -> try_parse_ul(lines, at)
      [] i = 4 -> try_parse_ol(lines, at)
      [] i = 5 -> try_parse_dl(lines, at)
      [] i = 6 -> try_parse_pre_delim(lines, at)
      [] i = 7 -> try_parse_pre_indented(lines, at)
      [] i = 8 -> try_parse_hr(lines, at)
      [] i = 9 -> try_parse_blockquote_delim(lines, at)
      [] i = 10 -> try_parse_blockquote_prefixed(lines, at)
      [] i = 11 -> try_parse_admon_box_delim(lines, at)
      [] i = 12 -> try_parse_admon_box(lines, at)
      [] i = 13 -> try_parse_verbatim(lines, at)
      [] i = 14 -> try_parse_p(lines, at)

\* `for func in funcs`: the first rule from i on that returns an element
\* (or raises); each rule starts where the previous one left the cursor
RECURSIVE try_rules(_, _, _)
try_rules(lines, at, i) ==
    IF i > 14 THEN NoMatch(at)
    ELSE Bind(try_rule(i, lines, at), LAMBDA r :
         IF r.st = "none" THEN try_rules(lines, r.at, i + 1) ELSE r)

\* the `while True` of _parse; an iteration that leaves the cursor where it
\* found it is repeated for ever ("loops")
RECURSIVE parse_loop(_, _, _)
parse_loop(lines, at, elems) ==
    Bind(skip_empty_lines(lines, at), LAMBDA at1 :
    IF is_done(lines, at1) THEN [ok |-> TRUE, elems |-> elems]
        ELSE Bind(try_rules(lines, at1, 1), LAMBDA r :
             IF r.st = "raise" THEN Raise(r.err)
                 ELSE IF r.at = at1 THEN Raise("loops")
                 ELSE IF r.st = "elem" THEN parse_loop(lines, r.at, Append(elems, r.elem))
                 ELSE parse_loop(lines, r.at, elems)))

Parser(lines) == parse_loop(lines, 0, <<>>)

----------------------------------------------------------------------------
(* _Formatter.  `self` is the record of the object's fields                *)
(* [max_line_len, cur_ul_level, cur_ol_level]; a method that changes a     *)
(* field returns the changed record with its lines.  Beside `lines`, a     *)
(* result carries `toks`, a history component that the code does not have: *)
(* toks[i].n is the number of paragraph tokens that lines[i] carries (0    *)
(* for a line that no paragraph produced) and toks[i].wide tells that      *)
(* lines[i] lies in an admonition box drawn wider than the width it was    *)
(* given.  `toks` follows `lines` index by index and never decides a line. *)

Ok(lines, toks, self) == [ok |-> TRUE, lines |-> lines, toks |-> toks, self |-> self]

NoTok == [n |-> 0, wide |-> FALSE]

no_toks(count) == [i \in 1..count |-> NoTok]

\* _Formatter(elems, max_line_len, cur_ul_level, cur_ol_level), defined
\* after the methods it calls
RECURSIVE elems_lines(_, _)

\* a faulty _format_elems: the nested formatter starts from the default
\* levels, not from the levels of this one
format_elems_default_levels(self, elems, max_line_len) ==
    elems_lines([max_line_len |-> max_line_len,
                 cur_ul_level |-> -1,
                 cur_ol_level |-> -1], elems)

format_elems(self, elems, max_line_len) ==
    elems_lines([max_line_len |-> max_line_len,
                 cur_ul_level |-> self.cur_ul_level,
                 cur_ol_level |-> self.cur_ol_level], elems)

indent_line(line, indent_len) ==
    IF Len(line) >= 1 THEN indent_str(indent_len) \o line ELSE line

\* a faulty _format_elems_indented: the elements are formatted at the full
\* width, not at the width less the indentation
format_elems_indented_full_width(self, elems, indent_len) ==
    Bind(format_elems(self, elems, self.max_line_len), LAMBDA r :
    IF ~r.ok THEN r
        ELSE Ok([i \in 1..Len(r.lines) |-> indent_line(r.lines[i], indent_len)], r.toks, self))

format_elems_indented(self, elems, indent_len) ==
    Bind(format_elems(self, elems, self.max_line_len - indent_len), LAMBDA r :
    IF ~r.ok THEN r
        ELSE Ok([i \in 1..Len(r.lines) |-> indent_line(r.lines[i], indent_len)], r.toks, self))

RECURSIVE p_line_list_len(_)
p_line_list_len(lst) == IF Len(lst) = 0 THEN 0 ELSE Len(Head(lst)) + p_line_list_len(Tail(lst))

\* the wrapping loop of _p_lines: `lines` is the list of token lists
RECURSIVE p_wrap(_, _, _)
p_wrap(words, lines, max_line_len) ==
    IF Len(words) = 0 THEN lines
    ELSE Bind(Head(words), LAMBDA word :
         Bind(Append(word, " "), LAMBDA to_append :
         IF Len(lines[Len(lines)]) = 0
             THEN p_wrap(Tail(words),
                         [lines EXCEPT ![Len(lines)] = Append(@, to_append)], max_line_len)
             ELSE IF p_line_list_len(lines[Len(lines)]) + Len(word) > max_line_len
             THEN p_wrap(Tail(words), Append(lines, <<to_append>>), max_line_len)
             ELSE p_wrap(Tail(words),
                         [lines EXCEPT ![Len(lines)] = Append(@, to_append)], max_line_len)))

\* a faulty runt correction: the token moved to the last line is not
\* deleted from the line before
avoid_runt_no_del(lines, max_line_len) ==
    Bind(Len(lines), LAMBDA n :
    IF /\ n >= 2
           /\ Len(lines[n]) = 1
           /\ Len(lines[n - 1][Len(lines[n - 1])]) + Len(lines[n][1]) - 1 <= max_line_len
        THEN [lines EXCEPT ![n] = <<lines[n - 1][Len(lines[n - 1])], lines[n][1]>>]
        ELSE lines)

\* a faulty runt correction: the two tokens are merged only when they are
\* shorter than the width
avoid_runt_strict(lines, max_line_len) ==
    Bind(Len(lines), LAMBDA n :
    IF /\ n >= 2
           /\ Len(lines[n]) = 1
           /\ Len(lines[n - 1][Len(lines[n - 1])]) + Len(lines[n][1]) - 1 < max_line_len
        THEN [lines EXCEPT ![n] = <<lines[n - 1][Len(lines[n - 1])], lines[n][1]>>,
                           ![n - 1] = SubSeq(@, 1, Len(@) - 1)]
        ELSE lines)

\* the runt correction of _p_lines
avoid_runt(lines, max_line_len) ==
    Bind(Len(lines), LAMBDA n :
    IF /\ n >= 2
           /\ Len(lines[n]) = 1
           /\ Len(lines[n - 1][Len(lines[n - 1])]) + Len(lines[n][1]) - 1 <= max_line_len
        THEN [lines EXCEPT ![n] = <<lines[n - 1][Len(lines[n - 1])], lines[n][1]>>,
                           ![n - 1] = SubSeq(@, 1, Len(@) - 1)]
        ELSE lines)

\* the token lists of the lines of the paragraph `p`
p_token_lines(p, max_line_len) == avoid_runt(p_wrap(p.words, << <<>> >>, max_line_len), max_line_len)

p_lines(self, p) ==
    Bind(p_token_lines(p, self.max_line_len), LAMBDA lines :
    Bind(remove_trailing_empty_lines([i \in 1..Len(lines) |-> concat(lines[i])]), LAMBDA new_lines :
    IF ~new_lines.ok THEN new_lines
        ELSE Ok(Append(new_lines.lines, <<>>),
                Append([i \in 1..Len(new_lines.lines) |-> [n |-> Len(lines[i]), wide |-> FALSE]],
                       NoTok),
                self)))

\* lines[0] = f'{marker} {lines[0][indent_len:]}', the removal of the
\* trailing empty lines and the final empty line, as _ul_item_lines and
\* _ol_item_lines do on the indented lines `r` of the item
item_lines_marked(self, r, marker, indent_len) ==
    IF ~r.ok THEN r
    ELSE IF Len(r.lines) = 0 THEN Raise("IndexError")
    ELSE Bind(<<marker \o <<" ">> \o str_from(Head(r.lines), indent_len)>> \o Tail(r.lines), LAMBDA marked :
         Bind(remove_trailing_empty_lines(marked), LAMBDA kept :
         IF ~kept.ok THEN kept
             ELSE Ok(Append(kept.lines, <<>>),
                     Append(SubSeq(r.toks, 1, Len(kept.lines)), NoTok), self)))

ul_bullet(cur_ul_level) == <<"BULLET", "TRIBULLET", "HYBULLET">>[(cur_ul_level % 3) + 1]

ul_item_lines(self, item) ==
    item_lines_marked(self, format_elems_indented(self, item.elems, 2),
                      <<ul_bullet(self.cur_ul_level)>>, 2)

\* the indexes of the lines that filter(lambda line: len(line.strip()) >= 1)
\* keeps
RECURSIVE nonblank_indexes(_, _)
nonblank_indexes(lines, i) ==
    IF i > Len(lines) THEN <<>>
    ELSE IF Len(strip(lines[i])) >= 1 THEN <<i>> \o nonblank_indexes(lines, i + 1)
    ELSE nonblank_indexes(lines, i + 1)

\* a faulty _compact_list: the lines are compacted when there are at least
\* two per item
compact_list_at_least(lst, lines) ==
    IF Len(lines) >= 2 * Len(lst.items)
    THEN Append([k \in 1..Len(nonblank_indexes(lines, 1)) |-> lines[nonblank_indexes(lines, 1)[k]]],
                <<>>)
    ELSE lines

compact_list(lst, lines) ==
    IF Len(lines) = 2 * Len(lst.items)
    THEN Append([k \in 1..Len(nonblank_indexes(lines, 1)) |-> lines[nonblank_indexes(lines, 1)[k]]],
                <<>>)
    ELSE lines

\* the history component of the lines compact_list returns
compact_list_toks(lst, lines, toks) ==
    IF Len(lines) = 2 * Len(lst.items)
    THEN Append([k \in 1..Len(nonblank_indexes(lines, 1)) |-> toks[nonblank_indexes(lines, 1)[k]]],
                NoTok)
    ELSE toks

\* the `for item in ul.items` loop of _ul_lines, at the raised level
RECURSIVE ul_items_loop(_, _, _, _, _)
ul_items_loop(self, ul, i, lines, toks) ==
    IF i > Len(ul.items) THEN Ok(lines, toks, self)
    ELSE Bind(ul_item_lines(self, ul.items[i]), LAMBDA r :
         IF ~r.ok THEN r
             ELSE ul_items_loop(self, ul, i + 1, lines \o r.lines, toks \o r.toks))

ul_lines(self, ul) ==
    Bind(ul_items_loop([self EXCEPT !.cur_ul_level = @ + 1], ul, 1, <<>>, <<>>), LAMBDA r :
    IF ~r.ok THEN r
        ELSE Ok(compact_list(ul, r.lines), compact_list_toks(ul, r.lines, r.toks),
                [r.self EXCEPT !.cur_ul_level = @ - 1]))

\* f'{n}' for n >= 0
RECURSIVE int_str(_)
int_str(n) ==
    Bind(<<"0", "1", "2", "3", "4", "5", "6", "7", "8", "9">>[(n % 10) + 1], LAMBDA digit :
    IF n < 10 THEN <<digit>> ELSE Append(int_str(n \div 10), digit))

\* '{:>width}'.format(n)
rjust_int(n, width) == str_mul(" ", width - Len(int_str(n))) \o int_str(n)

lower_letters ==
    <<"a", "b", "c", "d", "e", "f", "g", "h", "i", "j", "k", "l", "m",
      "n", "o", "p", "q", "r", "s", "t", "u", "v", "w", "x", "y", "z">>

make_ol_item_num(self, ol, index) ==
    IF self.cur_ol_level % 2 = 0
    THEN Bind(Len(int_str(Len(ol.items) - 1)), LAMBDA max_num_width :
         Append(rjust_int(index + 1, max_num_width), "."))
    ELSE <<lower_letters[(index % 26) + 1], ")">>

ol_item_lines(self, ol, index, item) ==
    Bind(make_ol_item_num(self, ol, index), LAMBDA num :
    Bind(Len(num) + 1, LAMBDA indent_len :
    item_lines_marked(self, format_elems_indented(self, item.elems, indent_len),
                          num, indent_len)))

\* the `for index, item in enumerate(ol.items)` loop of _ol_lines
RECURSIVE ol_items_loop(_, _, _, _, _)
ol_items_loop(self, ol, index, lines, toks) ==
    IF index >= Len(ol.items) THEN Ok(lines, toks, self)
    ELSE Bind(ol_item_lines(self, ol, index, ol.items[index + 1]), LAMBDA r :
         IF ~r.ok THEN r
             ELSE ol_items_loop(self, ol, index + 1, lines \o r.lines, toks \o r.toks))

ol_lines(self, ol) ==
    Bind(ol_items_loop([self EXCEPT !.cur_ol_level = @ + 1], ol, 0, <<>>, <<>>), LAMBDA r :
    IF ~r.ok THEN r
        ELSE Ok(compact_list(ol, r.lines), compact_list_toks(ol, r.lines, r.toks),
                [r.self EXCEPT !.cur_ol_level = @ - 1]))

dl_item_lines(self, item) ==
    Bind([i \in 1..Len(item.terms) |-> Append(item.terms[i], ":")], LAMBDA terms :
    Bind(format_elems_indented(self, item.elems, 4), LAMBDA r :
    IF ~r.ok THEN r
        ELSE Bind(remove_trailing_empty_lines(terms \o r.lines), LAMBDA kept :
             IF ~kept.ok THEN kept
                 ELSE Ok(Append(kept.lines, <<>>),
                         Append(SubSeq(no_toks(Len(terms)) \o r.toks, 1, Len(kept.lines)), NoTok),
                         self))))

RECURSIVE dl_items_loop(_, _, _, _, _)
dl_items_loop(self, dl, i, lines, toks) ==
    IF i > Len(dl.items) THEN Ok(lines, toks, self)
    ELSE Bind(dl_item_lines(self, dl.items[i]), LAMBDA r :
         IF ~r.ok THEN r
             ELSE dl_items_loop(self, dl, i + 1, lines \o r.lines, toks \o r.toks))

dl_lines(self, dl) == dl_items_loop(self, dl, 1, <<>>, <<>>)

pre_lines(self, pre) ==
    Ok(Append([i \in 1..Len(pre.lines) |-> indent_str(4) \o pre.lines[i]], <<>>),
       no_toks(Len(pre.lines) + 1), self)

verbatim_lines(self, verbatim) == Ok(verbatim.lines, no_toks(Len(verbatim.lines)), self)

hr_lines(self, hr) == Ok(<<str_mul("DOTS", self.max_line_len), <<>>>>, no_toks(2), self)

blockquote_lines(self, bq) ==
    Bind(format_elems_indented(self, bq.elems, 2), LAMBDA r :
    IF ~r.ok THEN r
        ELSE Bind(remove_trailing_empty_lines(r.lines), LAMBDA kept :
             IF ~kept.ok THEN kept
                 ELSE Ok(Append([i \in 1..Len(kept.lines) |->
                                    <<">", " ">> \o str_from(kept.lines[i], 2)], <<>>),
                         Append(SubSeq(r.toks, 1, Len(kept.lines)), NoTok), self)))

\* len(max(content_lines, key=lambda line: len(line)))
longest_len(content_lines) == max_of({Len(content_lines[i]) : i \in 1..Len(content_lines)})

admon_box_lines(self, admon_box) ==
    Bind(format_elems(self, admon_box.elems, self.max_line_len - 4), LAMBDA r :
    IF ~r.ok THEN r
        ELSE IF Len(r.lines) = 0 THEN Raise("ValueError")
        ELSE Bind(longest_len(r.lines), LAMBDA longest_content_line_len :
             Bind(longest_content_line_len > self.max_line_len - 4, LAMBDA wide :
             Ok(<< <<"TL", "LIGHT">> \o str_mul("LIGHT", longest_content_line_len)
                       \o <<"LIGHT", "TR">> >>
                    \o [i \in 1..Len(r.lines) |->
                           <<"VBAR", " ">> \o ljust(r.lines[i], longest_content_line_len)
                           \o <<" ", "VBAR">>]
                    \o << <<"BL", "LIGHT">> \o str_mul("LIGHT", longest_content_line_len)
                          \o <<"LIGHT", "BR">>,
                          <<>> >>,
                    <<NoTok>>
                    \o [i \in 1..Len(r.toks) |-> [r.toks[i] EXCEPT !.wide = @ \/ wide]]
                    \o <<NoTok, NoTok>>,
                    self))))

heading_lines(text, underline_ch) == <<text, str_mul(underline_ch, Len(text))>>

upper_letters ==
    <<"A", "B", "C", "D", "E", "F", "G", "H", "I", "J", "K", "L", "M",
      "N", "O", "P", "Q", "R", "S", "T", "U", "V", "W", "X", "Y", "Z">>

\* c.upper() for the characters of the model's alphabet
upper_char(c) ==
    IF is_lower(c)
    THEN upper_letters[CHOOSE i \in 1..26 : lower_letters[i] = c]
    ELSE c

\* text.upper()
upper(text) == [i \in 1..Len(text) |-> upper_char(text[i])]

h1_lines(self, h1) == Ok(heading_lines(upper(h1.text), "HEAVY"), no_toks(2), self)

h2_lines(self, h2) == Ok(heading_lines(h2.text, "LIGHT"), no_toks(2), self)

elem_lines(self, elem) ==
    CASE elem.type = "P" -> p_lines(self, elem)
      [] elem.type = "Ul" -> ul_lines(self, elem)
      [] elem.type = "Ol" -> ol_lines(self, elem)
      [] elem.type = "Dl" -> dl_lines(self, elem)
      [] elem.type = "H1" -> h1_lines(self, elem)
      [] elem.type = "H2" -> h2_lines(self, elem)
      [] elem.type = "Pre" -> pre_lines(self, elem)
      [] elem.type = "Hr" -> hr_lines(self, elem)
      [] elem.type = "Blockquote" -> blockquote_lines(self, elem)
      [] elem.type = "Verbatim" -> verbatim_lines(self, elem)
      [] elem.type = "AdmonBox" -> admon_box_lines(self, elem)

\* the `for elem in elems` loop of _elems_lines
RECURSIVE elems_loop(_, _, _, _, _)
elems_loop(self, elems, i, lines, toks) ==
    IF i > Len(elems) THEN Ok(lines, toks, self)
    ELSE Bind(elem_lines(self, elems[i]), LAMBDA r :
         IF ~r.ok THEN r
             ELSE elems_loop(r.self, elems, i + 1, lines \o r.lines, toks \o r.toks))

\* a faulty _elems_lines: trailing empty lines are removed but the lines
\* are not right-stripped
elems_lines_unstripped(self, elems) ==
    Bind(elems_loop(self, elems, 1, <<>>, <<>>), LAMBDA r :
    IF ~r.ok THEN r
        ELSE Bind(remove_trailing_empty_lines(r.lines), LAMBDA kept :
             IF ~kept.ok THEN kept
                 ELSE Ok(kept.lines, SubSeq(r.toks, 1, Len(kept.lines)), r.self)))

elems_lines(self, elems) ==
    Bind(elems_loop(self, elems, 1, <<>>, <<>>), LAMBDA r :
    IF ~r.ok THEN r
        ELSE Bind(remove_trailing_empty_lines(
                             [i \in 1..Len(r.lines) |-> rstrip(r.lines[i])]), LAMBDA kept :
             IF ~kept.ok THEN kept
                 ELSE Ok(kept.lines, SubSeq(r.toks, 1, Len(kept.lines)), r.self)))

\* _Formatter(elems, max_line_len, cur_ul_level, cur_ol_level)
Formatter(elems, max_line_len, cur_ul_level, cur_ol_level) ==
    elems_lines([max_line_len |-> max_line_len,
                 cur_ul_level |-> cur_ul_level,
                 cur_ol_level |-> cur_ol_level], elems)

----------------------------------------------------------------------------
(* The public functions *)

\* _Formatter(_Parser(content_lines).elems, max_line_len).lines
format_lines(content_lines, max_line_len) ==
    Bind(Parser(content_lines), LAMBDA parsed :
    IF ~parsed.ok THEN parsed
        ELSE Formatter(parsed.elems, max_line_len, -1, -1))

format(text, max_line_len) ==
    Bind(format_lines(splitlines(text), max_line_len), LAMBDA r :
    IF ~r.ok THEN Raise(r.err)
        ELSE [ok |-> TRUE, text |-> str_join(<<"\n">>, r.lines)])

\* the content of a stripped comment line that starts with `prefix` and
\* holds at least one more character: group 1 of r'\s*\* (.+)' and of
\* fr'\s*{re.escape(prefix)}(.+)' (the line is stripped, so \s* matches
\* the empty string)
match_line_pat(comment_line, prefix) ==
    startswith(comment_line, prefix) /\ Len(comment_line) >= Len(prefix) + 1

\* a faulty extraction loop of format_c_block_comment: a line that
\* matches no shape is left out
RECURSIVE c_block_content_lines_lenient(_, _, _)
c_block_content_lines_lenient(comment_lines, i, content_lines) ==
    IF i > Len(comment_lines) THEN [ok |-> TRUE, lines |-> content_lines]
    ELSE Bind(strip(comment_lines[i]), LAMBDA comment_line :
         IF comment_line = <<"*">>
             THEN c_block_content_lines_lenient(comment_lines, i + 1, Append(content_lines, <<>>))
             ELSE IF ~match_line_pat(comment_line, <<"*", " ">>)
             THEN c_block_content_lines_lenient(comment_lines, i + 1, content_lines)
             ELSE c_block_content_lines_lenient(comment_lines, i + 1,
                                                Append(content_lines, str_from(comment_line, 2))))

\* the extraction loop of format_c_block_comment
RECURSIVE c_block_content_lines(_, _, _)
c_block_content_lines(comment_lines, i, content_lines) ==
    IF i > Len(comment_lines) THEN [ok |-> TRUE, lines |-> content_lines]
    ELSE Bind(strip(comment_lines[i]), LAMBDA comment_line :
         IF comment_line \in {<<"/", "*">>, <<"*", "/">>}
             THEN c_block_content_lines(comment_lines, i + 1, content_lines)
             ELSE IF comment_line = <<"*">>
             THEN c_block_content_lines(comment_lines, i + 1, Append(content_lines, <<>>))
             ELSE IF ~match_line_pat(comment_line, <<"*", " ">>)
             THEN [ok |-> FALSE, err |-> "ValueError", value |-> comment_line]
             ELSE c_block_content_lines(comment_lines, i + 1,
                                        Append(content_lines, str_from(comment_line, 2))))

\* `engine` is a history field: whether the call constructed _Parser and
\* _Formatter
format_c_block_comment(comment, start_col, max_line_len) ==
    Bind(c_block_content_lines(splitlines(comment), 1, <<>>), LAMBDA c :
    IF ~c.ok THEN [ok |-> FALSE, err |-> c.err, value |-> c.value, engine |-> FALSE]
        ELSE Bind(format_lines(c.lines, max_line_len - start_col - 3), LAMBDA r :
             IF ~r.ok THEN [ok |-> FALSE, err |-> r.err, value |-> <<>>, engine |-> TRUE]
                 ELSE [ok |-> TRUE,
                       text |-> str_join(<<"\n">>,
                           << <<"/", "*">> >>
                           \o [i \in 1..Len(r.lines) |->
                                  rstrip(indent_str(start_col) \o <<" ", "*", " ">> \o r.lines[i])]
                           \o << indent_str(start_col) \o <<" ", "*", "/">> >>),
                       engine |-> TRUE]))

\* the extraction loop of format_prefixed_block_comment
RECURSIVE prefixed_content_lines(_, _, _, _)
prefixed_content_lines(comment_lines, i, content_lines, prefix) ==
    IF i > Len(comment_lines) THEN [ok |-> TRUE, lines |-> content_lines]
    ELSE Bind(strip(comment_lines[i]), LAMBDA comment_line :
         IF comment_line = rstrip(prefix)
             THEN prefixed_content_lines(comment_lines, i + 1, Append(content_lines, <<>>), prefix)
             ELSE IF ~match_line_pat(comment_line, prefix)
             THEN [ok |-> FALSE, err |-> "ValueError", value |-> comment_line]
             ELSE prefixed_content_lines(comment_lines, i + 1,
                                         Append(content_lines, str_from(comment_line, Len(prefix))),
                                         prefix))

format_prefixed_block_comment(comment, start_col, max_line_len, prefix) ==
    Bind(prefixed_content_lines(splitlines(comment), 1, <<>>, prefix), LAMBDA c :
    IF ~c.ok THEN [ok |-> FALSE, err |-> c.err, value |-> c.value, engine |-> FALSE]
        ELSE Bind(format_lines(c.lines, max_line_len - start_col - Len(prefix)), LAMBDA r :
             IF ~r.ok THEN [ok |-> FALSE, err |-> r.err, value |-> <<>>, engine |-> TRUE]
                 ELSE [ok |-> TRUE,
                       text |-> str_join(<<"\n">>,
                           [i \in 1..Len(r.lines) |->
                               rstrip(indent_str(start_col) \o prefix \o r.lines[i])]),
                       engine |-> TRUE]))

----------------------------------------------------------------------------
(* The state machine: a caller picks the arguments (Init) and calls the    *)
(* public functions.                                                       *)

VARIABLES
    op,              \* the last call made: "start" before the first one
    in_text,         \* the `text` or `comment` argument
    in_max_line_len, \* the `max_line_len` argument
    in_start_col,    \* the `start_col` argument
    in_cur_ul_level, \* the `cur_ul_level` argument of _Formatter
    in_cur_ol_level, \* the `cur_ol_level` argument of _Formatter
    parsed,          \* what _Parser(...) gave in the last call
    formatted,       \* what _Formatter(...) gave in the last call
    out,             \* what the first call returned or raised
    out2             \* what the call on the first call's own output gave

vars == <<op, in_text, in_max_line_len, in_start_col, in_cur_ul_level, in_cur_ol_level,
          parsed, formatted, out, out2>>

\* nothing called yet
Unset == [ok |-> FALSE, err |-> "unset"]

\* the texts of at most max_lines lines of `line_pool`, joined by "\n"
Texts(line_pool, max_lines) ==
    UNION {{str_join(<<"\n">>, [i \in 1..n |-> line_pool[f[i]]]) :
               f \in [1..n -> 1..Len(line_pool)]} : n \in 0..max_lines}

\* the arguments of a call
Args(texts, widths, cols) ==
    /\ op = "start"
    /\ in_text \in texts
    /\ in_max_line_len \in widths
    /\ in_start_col \in cols
    /\ in_cur_ul_level = -1
    /\ in_cur_ol_level = -1
    /\ parsed = Unset
    /\ formatted = Unset
    /\ out = Unset
    /\ out2 = Unset

\* format(in_text, in_max_line_len)
Format ==
    /\ op = "start"
    /\ op' = "format"
    /\ parsed' = Parser(splitlines(in_text))
    /\ formatted' = format_lines(splitlines(in_text), in_max_line_len)
    /\ out' = format(in_text, in_max_line_len)
    /\ UNCHANGED <<in_text, in_max_line_len, in_start_col, in_cur_ul_level, in_cur_ol_level, out2>>

\* format(format(in_text, in_max_line_len), in_max_line_len)
Reformat ==
    /\ op = "format"
    /\ out.ok
    /\ op' = "reformat"
    /\ out2' = format(out.text, in_max_line_len)
    /\ UNCHANGED <<in_text, in_max_line_len, in_start_col, in_cur_ul_level, in_cur_ol_level, parsed, formatted, out>>

MaxLines == 3

MaxWidth == 3

\* lines of a text given to format: blank, whitespace-only, a lone ">",
\* a paragraph with a bullet token, a delimiter, an indented preformatted
\* line with a trailing space, a word
FormatPool ==
    <<<<>>,
      <<" ">>,
      <<">">>,
      <<"a", " ", "*", " ", "b">>,
      <<"BACKTICK", "BACKTICK", "BACKTICK">>,
      <<" ", " ", " ", " ", "x", " ">>,
      <<"b">>>>

Init == Args(Texts(FormatPool, MaxLines), 1..MaxWidth, {0})

Next == Format \/ Reformat

Spec == Init /\ [][Next]_vars

MaxNestLines == 3

MaxNestWidth == 7

\* lines of a text with paragraphs nested in the constructs that take
\* columns from them: a plain paragraph, an unordered and an ordered list
\* item, a definition, a quotation, the delimiter of an admonition box and
\* a paragraph whose first token is longer than the others
NestPool ==
    <<<<"a", " ", "b", " ", "c">>,
      <<"*", " ", "a", " ", "b">>,
      <<".", " ", "a", " ", "b", " ", "c">>,
      <<"t", ":", ":", " ", "a", " ", "b">>,
      <<">", " ", "a", " ", "b", " ", "c">>,
      <<"!", "!", "!">>,
      <<"a", "b", "c", "d", " ", "a", " ", "b">>>>

\* the widths at which a nested line can carry two tokens
InitNest == Args(Texts(NestPool, MaxNestLines), (MaxNestWidth - 3)..MaxNestWidth, {0})

SpecNest == InitNest /\ [][Next]_vars

MaxParaLines == 3

MaxParaWidth == 6

\* lines of a paragraph: a word, two words, a literal span with a space,
\* a word that runs into a bracketed literal span followed by a word, a
\* lone backtick
ParaPool ==
    <<<<"a">>,
      <<"b", " ", "c">>,
      <<"BACKTICK", "x", " ", "y", "BACKTICK">>,
      <<"p", "(", "BACKTICK", "q", "BACKTICK", "r", " ", "d">>,
      <<"BACKTICK">>>>

InitPara == Args(Texts(ParaPool, MaxParaLines), 1..MaxParaWidth, {0})

SpecPara == InitPara /\ [][Next]_vars

MaxListLines == 3

MaxListWidth == 4

\* lines of a text with lists: an unordered item, a continuation line of
\* it, a blank line, an ordered item, a one-line definition, an ordered
\* list in an unordered item, an unordered list in a quotation
ListPool ==
    <<<<"*", " ", "a">>,
      <<" ", " ", "b">>,
      <<>>,
      <<".", " ", "a">>,
      <<"t", ":", ":", " ", "a">>,
      <<"*", " ", ".", " ", "a">>,
      <<">", " ", "*", " ", "a">>>>

InitList == Args(Texts(ListPool, MaxListLines), (MaxListWidth - 2)..MaxListWidth, {0})

SpecList == InitList /\ [][Next]_vars

MaxBlockLines == 3

MaxBlockWidth == 3

\* lines of a text that exercise the block rules: a term line, a line
\* indented by four spaces, a word, the three-backtick delimiter, a blank
\* line, a lone ">", a whitespace-only line, the ">>>" delimiter, the
\* underline of a level 1 heading, a level 1 heading in its prefix form
BlockPool ==
    <<<<"t", ":">>,
      <<" ", " ", " ", " ", "b">>,
      <<"a">>,
      <<"BACKTICK", "BACKTICK", "BACKTICK">>,
      <<>>,
      <<">">>,
      <<" ">>,
      <<">", ">", ">">>,
      <<"HEAVY">>,
      <<"=", " ", "a">>>>

InitBlock == Args(Texts(BlockPool, MaxBlockLines), (MaxBlockWidth - 1)..MaxBlockWidth, {0})

SpecBlock == InitBlock /\ [][Next]_vars

MaxOlItems == 11

MaxOlWidth == 6

\* the line of a one-word item of an ordered list
OlPool == <<<<".", " ", "a">>>>

\* ordered lists of up to MaxOlItems one-word items
InitOl == Args(Texts(OlPool, MaxOlItems), 1..MaxOlWidth, {0})

SpecOl == InitOl /\ [][Next]_vars

\* _format_elems: _Formatter(elems, in_max_line_len, in_cur_ul_level,
\* in_cur_ol_level) for the elements of in_text
FormatElems ==
    /\ op = "start"
    /\ op' = "format_elems"
    /\ parsed' = Parser(splitlines(in_text))
    /\ formatted' = IF parsed'.ok
                    THEN Formatter(parsed'.elems, in_max_line_len,
                                   in_cur_ul_level, in_cur_ol_level)
                    ELSE parsed'
    /\ UNCHANGED <<in_text, in_max_line_len, in_start_col, in_cur_ul_level, in_cur_ol_level,
                   out, out2>>

MaxGlyphLines == 3

MaxGlyphWidth == 12

\* lines of a text with unordered lists: a list in a list, a list in a
\* quotation, a list in an ordered list, a list in a definition, an item
GlyphPool ==
    <<<<"*", " ", "*", " ", "a">>,
      <<">", " ", "*", " ", "a">>,
      <<".", " ", "*", " ", "a">>,
      <<"t", ":", ":", " ", "*", " ", "a">>,
      <<"*", " ", "a">>>>

\* a list in an admonition box
GlyphBoxText ==
    str_join(<<"\n">>, <<<<"!", "!", "!">>, <<"*", " ", "a">>, <<"!", "!", "!">>>>)

\* the levels that _format_elems hands to a nested formatter: -1 at the
\* top level, k inside k + 1 lists of the kind
InitGlyph ==
    /\ op = "start"
    /\ in_text \in Texts(GlyphPool, MaxGlyphLines) \cup {GlyphBoxText}
    /\ in_max_line_len = MaxGlyphWidth
    /\ in_start_col = 0
    /\ in_cur_ul_level \in {-1, 0, 1, 2}
    /\ in_cur_ol_level \in {-1, 0}
    /\ parsed = Unset
    /\ formatted = Unset
    /\ out = Unset
    /\ out2 = Unset

NextGlyph == FormatElems

SpecGlyph == InitGlyph /\ [][NextGlyph]_vars

MaxHeadingLines == 3

MaxHeadingWidth == 4

\* lines of a text with headings: the two prefix forms, a prefix form with
\* a trailing space, a word with a leading and one with a trailing space,
\* the two underlines, a blank line
HeadingPool ==
    <<<<"=", " ", "a">>,
      <<"=", "=", " ", "b">>,
      <<"=", " ", "a", " ">>,
      <<" ", "c">>,
      <<"c", " ">>,
      <<"HEAVY", "HEAVY">>,
      <<"LIGHT", "LIGHT">>,
      <<>>>>

InitHeading ==
    Args(Texts(HeadingPool, MaxHeadingLines), (MaxHeadingWidth - 1)..MaxHeadingWidth, {0})

SpecHeading == InitHeading /\ [][Next]_vars

MaxBoxInterior == 2

MaxBoxWidth == 9

\* the two lines that open a box-drawn admonition and the line that
\* closes it
box_top == <<"TL", "LIGHT", "TR">>

box_tag_line == <<"VBAR", " ", "T", "I", "P", ":", " ", "a">>

box_bottom == <<"BL", "LIGHT", "BR">>

\* lines between the opening and the closing of a box: a content line in
\* its borders, a lone border, a blank line, a line with no border, a
\* content line with no space after its border
BoxPool ==
    <<<<"VBAR", " ", "b", " ", "VBAR">>,
      <<"VBAR">>,
      <<>>,
      <<"c">>,
      <<"VBAR", "c", "VBAR">>>>

\* the boxes of up to max_interior lines of BoxPool, closed or not
BoxTexts(max_interior) ==
    UNION {{str_join(<<"\n">>, <<box_top, box_tag_line>>
                                   \o [i \in 1..n |-> BoxPool[f[i]]] \o tail) :
               f \in [1..n -> 1..Len(BoxPool)], tail \in {<<>>, <<box_bottom>>}} :
           n \in 0..max_interior}

InitBox == Args(BoxTexts(MaxBoxInterior), (MaxBoxWidth - 1)..MaxBoxWidth, {0})

SpecBox == InitBox /\ [][Next]_vars

MaxVerbatimLines == 3

MaxVerbatimWidth == 3

\* lines of a text with verbatim blocks: a line that starts with a
\* box-drawing character, the same with a trailing space, a link
\* reference definition, the same with a trailing space, a word, a blank
\* line
VerbatimPool ==
    <<<<"VBAR", " ", "a">>,
      <<"TEE", " ", "a", " ">>,
      <<"[", "1", "]", ":", " ", "h", "x">>,
      <<"[", "2", "]", ":", " ", "f", "y", " ">>,
      <<"b">>,
      <<>>>>

InitVerbatim ==
    Args(Texts(VerbatimPool, MaxVerbatimLines), (MaxVerbatimWidth - 1)..MaxVerbatimWidth, {0})

SpecVerbatim == InitVerbatim /\ [][Next]_vars

\* the default value of `prefix`
default_prefix == <<"#", " ">>

\* format_c_block_comment(in_text, in_start_col, in_max_line_len);
\* `formatted` is what the engine gave for the content lines, when the
\* call got to it
FormatCBlockComment ==
    /\ op = "start"
    /\ op' = "c_block"
    /\ out' = format_c_block_comment(in_text, in_start_col, in_max_line_len)
    /\ formatted' = IF out'.engine
                        THEN format_lines(c_block_content_lines(splitlines(in_text), 1, <<>>).lines,
                                          in_max_line_len - in_start_col - 3)
                        ELSE Unset
    /\ UNCHANGED <<in_text, in_max_line_len, in_start_col, in_cur_ul_level, in_cur_ol_level, parsed, out2>>

\* format_prefixed_block_comment(in_text, in_start_col, in_max_line_len)
FormatPrefixedBlockComment ==
    /\ op = "start"
    /\ op' = "prefixed"
    /\ out' = format_prefixed_block_comment(in_text, in_start_col, in_max_line_len,
                                             default_prefix)
    /\ formatted' = IF out'.engine
                        THEN format_lines(prefixed_content_lines(splitlines(in_text), 1, <<>>,
                                                                 default_prefix).lines,
                                          in_max_line_len - in_start_col - Len(default_prefix))
                        ELSE Unset
    /\ UNCHANGED <<in_text, in_max_line_len, in_start_col, in_cur_ul_level, in_cur_ol_level, parsed, out2>>

\* format_c_block_comment called on the comment it returned
ReformatCBlockComment ==
    /\ op = "c_block"
    /\ out.ok
    /\ op' = "c_block_again"
    /\ out2' = format_c_block_comment(out.text, in_start_col, in_max_line_len)
    /\ UNCHANGED <<in_text, in_max_line_len, in_start_col, in_cur_ul_level, in_cur_ol_level, parsed, formatted, out>>

MaxCommentLines == 3

MaxCommentWidth == 4

MaxStartCol == 1

\* lines of a comment: the opening and closing lines of a C comment, a
\* content line, a blank content line, a line of no accepted shape, a
\* content line of two backtick tokens, a content line and a blank line
\* with the default prefix
CommentPool ==
    <<<<"/", "*">>,
      <<" ", "*", " ", "a">>,
      <<" ", "*">>,
      <<" ", "*", "/">>,
      <<"h", "i">>,
      <<" ", "*", " ", "BACKTICK", "BACKTICK", "BACKTICK", " ", "BACKTICK", "BACKTICK", "BACKTICK">>,
      <<"#", " ", "a">>,
      <<"#">>>>

InitComment ==
    Args(Texts(CommentPool, MaxCommentLines), {MaxCommentWidth}, 0..MaxStartCol)

NextComment == FormatCBlockComment \/ FormatPrefixedBlockComment \/ ReformatCBlockComment

SpecComment == InitComment /\ [][NextComment]_vars

----------------------------------------------------------------------------
(* Properties of format *)

\* C1: formatting the output of format again, at the same width, gives the
\* same output (stated for the second calls that return).  The code breaks
\* this: a wrapped paragraph line that starts with a bullet token is read
\* back as a list item.
Idempotent == (op = "reformat" /\ out2.ok) => out2 = out

\* C2: format returns for every text: it never raises.  The code breaks
\* this (an empty element list, or output lines that are all empty, make
\* _remove_trailing_empty_lines raise).
FormatTotal == op = "format" => out.ok

----------------------------------------------------------------------------
(* Properties of paragraph wrapping *)

RECURSIVE tokens_of_lines(_)
tokens_of_lines(lines) ==
    IF Len(lines) = 0 THEN <<>>
    ELSE p_elem_from_text(Head(lines)).words \o tokens_of_lines(Tail(lines))

\* the tokens of the token lists `token_lines`, each without the space
\* that _p_lines appends to it
RECURSIVE tokens_of_token_lines(_)
tokens_of_token_lines(token_lines) ==
    IF Len(token_lines) = 0 THEN <<>>
    ELSE [i \in 1..Len(Head(token_lines)) |->
             SubSeq(Head(token_lines)[i], 1, Len(Head(token_lines)[i]) - 1)]
         \o tokens_of_token_lines(Tail(token_lines))

\* format was given one paragraph and returned
OneParagraph ==
    /\ op = "format"
    /\ parsed.ok
    /\ Len(parsed.elems) = 1
    /\ parsed.elems[1].type = "P"
    /\ formatted.ok

\* C4: the tokens of the output lines of a wrapped paragraph, read from the
\* first line to the last and left to right, are the tokens of the
\* paragraph in their order: both the tokens that _p_lines puts on its
\* lines and the tokens that the output lines read back as.
WordsPreserved ==
    OneParagraph =>
        /\ tokens_of_token_lines(p_token_lines(parsed.elems[1], in_max_line_len))
               = parsed.elems[1].words
        /\ formatted.lines
               = [i \in 1..Len(formatted.lines) |->
                     rstrip(concat(p_token_lines(parsed.elems[1], in_max_line_len)[i]))]
        /\ tokens_of_lines(formatted.lines) = parsed.elems[1].words

\* a paragraph of three tokens or more the runt correction acted on: the
\* wrapping loop leaves one token on the last line, and the output has two
\* there
RuntCorrected ==
    /\ OneParagraph
    /\ Len(parsed.elems[1].words) >= 3
    /\ Len(p_wrap(parsed.elems[1].words, << <<>> >>, in_max_line_len)) >= 2
    /\ Len(p_wrap(parsed.elems[1].words, << <<>> >>, in_max_line_len)
               [Len(formatted.lines)]) = 1
    /\ formatted.toks[Len(formatted.lines)].n = 2

\* the last two tokens of `words`, joined by one space, fit in the width
last_two_fit(words) ==
    Len(words[Len(words) - 1]) + 1 + Len(words[Len(words)]) <= in_max_line_len

\* `after` is `before` with the last token of its second-to-last line
\* moved to the front of its last line, the second-to-last line keeping a
\* token
one_token_moved(before, after) ==
    /\ Len(after) = Len(before)
    /\ \A i \in 1..(Len(before) - 2) : after[i] = before[i]
    /\ Len(before[Len(before) - 1]) >= 2
    /\ after[Len(before) - 1] \o <<after[Len(before)][1]>> = before[Len(before) - 1]
    /\ Tail(after[Len(before)]) = before[Len(before)]
    /\ Len(after[Len(before)]) = 2

\* the runt correction on the token lines `wrapped` of the wrapping loop
\* gave `corrected`, for the paragraph of `words`
runt_corrected(words, wrapped, corrected) ==
    /\ (Len(corrected) >= 2 /\ Len(corrected[Len(corrected)]) = 1) => ~last_two_fit(words)
    /\ IF Len(wrapped) >= 2 /\ Len(wrapped[Len(wrapped)]) = 1 /\ last_two_fit(words)
       THEN one_token_moved(wrapped, corrected)
       ELSE corrected = wrapped

\* C11: the last output line of a paragraph of two lines or more holds one
\* token only when that token and the last token of the line before,
\* joined by one space, are longer than max_line_len; when the wrapping
\* loop leaves one token on the last line and the two fit, exactly one
\* token moves from the second-to-last line to the front of the last line
\* and the second-to-last line keeps a token; the output lines carry the
\* tokens of the corrected lines.
RuntCorrection ==
    OneParagraph =>
        /\ runt_corrected(parsed.elems[1].words,
                          p_wrap(parsed.elems[1].words, << <<>> >>, in_max_line_len),
                          p_token_lines(parsed.elems[1], in_max_line_len))
        /\ (Len(formatted.lines) >= 2 /\ formatted.toks[Len(formatted.lines)].n = 1)
               => ~last_two_fit(parsed.elems[1].words)

\* a paragraph the wrapping loop leaves with one token on its last line,
\* whose last two tokens fill the width exactly: the last output line is
\* max_line_len long and carries two tokens
RuntExactFit ==
    /\ OneParagraph
    /\ Len(formatted.lines) >= 2
    /\ formatted.toks[Len(formatted.lines)].n = 2
    /\ Len(formatted.lines[Len(formatted.lines)]) = in_max_line_len
    /\ Len(Head(Tail(parsed.elems[1].words))) >= 1
    /\ one_token_moved(p_wrap(parsed.elems[1].words, << <<>> >>, in_max_line_len),
                       p_token_lines(parsed.elems[1], in_max_line_len))

----------------------------------------------------------------------------
(* Properties of lists *)

\* every list of `elems`, at every depth, has an item
RECURSIVE lists_nonempty(_)
lists_nonempty(elems) ==
    \A i \in 1..Len(elems) :
        CASE elems[i].type \in {"Ul", "Ol", "Dl"} ->
                 /\ Len(elems[i].items) >= 1
                 /\ \A k \in 1..Len(elems[i].items) : lists_nonempty(elems[i].items[k].elems)
          [] elems[i].type \in {"Blockquote", "AdmonBox"} -> lists_nonempty(elems[i].elems)
          [] OTHER -> TRUE

\* some list of `elems` lies inside another element
RECURSIVE has_nested_list(_, _)
has_nested_list(elems, depth) ==
    \E i \in 1..Len(elems) :
        CASE elems[i].type \in {"Ul", "Ol", "Dl"} ->
                 \/ depth >= 1
                 \/ \E k \in 1..Len(elems[i].items) :
                        has_nested_list(elems[i].items[k].elems, depth + 1)
          [] elems[i].type \in {"Blockquote", "AdmonBox"} ->
                 has_nested_list(elems[i].elems, depth + 1)
          [] OTHER -> FALSE

\* the cursor positions at which _parse tries its rules: the lines of the
\* text that are not empty
rule_positions == {at \in 0..(Len(splitlines(in_text)) - 1) : splitlines(in_text)[at + 1] # <<>>}

\* what a list rule returned is no element, or a list with an item
list_rule_nonempty(rule) ==
    rule.st = "elem" => Len(rule.elem.items) >= 1

\* C5: every unordered, ordered and definition list of the element tree
\* the parser returns, at every depth, has at least one item, and each of
\* the three list rules, tried at any line of the text that is not empty,
\* returns no element or a list with an item.
ListsNonEmpty ==
    op = "format" =>
        /\ parsed.ok => lists_nonempty(parsed.elems)
        /\ \A at \in rule_positions :
               /\ list_rule_nonempty(try_parse_ul(splitlines(in_text), at))
               /\ list_rule_nonempty(try_parse_ol(splitlines(in_text), at))
               /\ list_rule_nonempty(try_parse_dl(splitlines(in_text), at))

\* the parser returned a tree with a list inside another element, for a
\* text one line of which starts no list item (the three list rules return
\* no element there)
NestedListParsed ==
    /\ op = "format"
    /\ parsed.ok
    /\ has_nested_list(parsed.elems, 0)
    /\ \E at \in rule_positions :
           /\ try_parse_ul(splitlines(in_text), at).st = "none"
           /\ try_parse_ol(splitlines(in_text), at).st = "none"
           /\ try_parse_dl(splitlines(in_text), at).st = "none"

\* the formatter's fields when format renders a top-level element, and
\* when it renders the items of a top-level list `lst`
top_self == [max_line_len |-> in_max_line_len, cur_ul_level |-> -1, cur_ol_level |-> -1]

item_self(lst) ==
    IF lst.type = "Ul" THEN [top_self EXCEPT !.cur_ul_level = 0]
    ELSE [top_self EXCEPT !.cur_ol_level = 0]

\* the rendered item k (from 1) of the top-level list `lst`, and the
\* rendered list
rendered_item(lst, k) ==
    IF lst.type = "Ul" THEN ul_item_lines(item_self(lst), lst.items[k])
    ELSE ol_item_lines(item_self(lst), lst, k - 1, lst.items[k])

rendered_list(lst) == IF lst.type = "Ul" THEN ul_lines(top_self, lst) ELSE ol_lines(top_self, lst)

\* the rendered items 1..k of `lst`, one after the other
RECURSIVE rendered_items(_, _)
rendered_items(lst, k) ==
    IF k = 0 THEN <<>> ELSE rendered_items(lst, k - 1) \o rendered_item(lst, k).lines

\* the number of content lines (lines that are not blank) of `lines`
content_line_count(lines) ==
    Cardinality({i \in 1..Len(lines) : \E j \in 1..Len(lines[i]) : ~is_space(lines[i][j])})

\* the rendered items of `lst` are content lines followed by one blank line
items_end_blank(lst) ==
    \A k \in 1..Len(lst.items) :
        /\ Len(rendered_item(lst, k).lines) >= 2
        /\ rendered_item(lst, k).lines[Len(rendered_item(lst, k).lines)] = <<>>
        /\ content_line_count(<<rendered_item(lst, k).lines
                                     [Len(rendered_item(lst, k).lines) - 1]>>) = 1

every_item_one_line(lst) ==
    \A k \in 1..Len(lst.items) : content_line_count(rendered_item(lst, k).lines) = 1

\* the list is rendered as the one content line of each item, then one
\* blank line
is_compacted(lst) ==
    rendered_list(lst).lines
        = Append([k \in 1..Len(lst.items) |-> rendered_item(lst, k).lines[1]], <<>>)

\* the top-level lists of the parsed text that are rendered
rendered_top_lists ==
    {e \in 1..Len(parsed.elems) :
        parsed.elems[e].type \in {"Ul", "Ol"} /\ rendered_list(parsed.elems[e]).ok}

\* C10: a rendered top-level unordered or ordered list is compacted (the
\* one content line of each item, with no blank line between, then one
\* blank line) if and only if every item renders to exactly one content
\* line; otherwise it is the rendered items unchanged, each followed by one
\* blank line.  When the list is the whole text, the output of format is
\* these lines, right-stripped, without the last blank line.
ListCompaction ==
    (op = "format" /\ parsed.ok) =>
        \A e \in rendered_top_lists :
            /\ items_end_blank(parsed.elems[e])
            /\ every_item_one_line(parsed.elems[e]) <=> is_compacted(parsed.elems[e])
            /\ ~every_item_one_line(parsed.elems[e]) =>
                   rendered_list(parsed.elems[e]).lines
                       = rendered_items(parsed.elems[e], Len(parsed.elems[e].items))
            /\ Len(parsed.elems) = 1 =>
                   /\ formatted.ok
                   /\ formatted.lines
                          = [i \in 1..(Len(rendered_list(parsed.elems[e]).lines) - 1) |->
                                rstrip(rendered_list(parsed.elems[e]).lines[i])]

\* a list of two items or more that is compacted, in a text that is this
\* list only: the output has one line per item
ListCompacted ==
    /\ op = "format"
    /\ parsed.ok
    /\ Len(parsed.elems) = 1
    /\ 1 \in rendered_top_lists
    /\ Len(parsed.elems[1].items) >= 2
    /\ is_compacted(parsed.elems[1])
    /\ formatted.ok
    /\ Len(formatted.lines) = Len(parsed.elems[1].items)

----------------------------------------------------------------------------
(* Properties of the comment functions *)

\* the lines of the comment, trimmed
comment_lines_trimmed == [i \in 1..Len(splitlines(in_text)) |-> strip(splitlines(in_text)[i])]

\* `line` (trimmed) is `marker`, or `marker`, a space and content
is_marker_line(line, marker) ==
    \/ line = marker
    \/ /\ Len(line) >= Len(marker) + 2
       /\ SubSeq(line, 1, Len(marker) + 1) = marker \o <<" ">>

\* the shapes the called function accepts for a trimmed line
line_accepted(line) ==
    IF op = "prefixed" THEN is_marker_line(line, <<"#">>)
    ELSE line \in {<<"/", "*">>, <<"*", "/">>} \/ is_marker_line(line, <<"*">>)

\* the indexes of the lines of the comment that match no accepted shape
malformed_lines ==
    {i \in 1..Len(comment_lines_trimmed) : ~line_accepted(comment_lines_trimmed[i])}

first_malformed == CHOOSE i \in malformed_lines : \A j \in malformed_lines : i <= j

\* C6: when a line of the comment matches no accepted shape,
\* format_c_block_comment and format_prefixed_block_comment raise
\* ValueError with the first such line, trimmed, as its value, and do not
\* get to the parser and the formatter.
MalformedEnvelope ==
    (op \in {"c_block", "prefixed"} /\ malformed_lines # {}) =>
        /\ ~out.ok
        /\ out.err = "ValueError"
        /\ out.value = comment_lines_trimmed[first_malformed]
        /\ ~out.engine

\* format_c_block_comment was given a comment whose first line is
\* accepted, whose second line is not, and which has a third line
MalformedAfterAccepted ==
    /\ op = "c_block"
    /\ Len(comment_lines_trimmed) >= 3
    /\ first_malformed = 2
    /\ malformed_lines # {}
    /\ ~out.ok

\* C7: format_c_block_comment returns for every comment of one line or
\* more all lines of which have an accepted shape.  The code breaks this:
\* with no content line, or blank content lines only,
\* _remove_trailing_empty_lines raises.
OnlyMalformedFails ==
    (op = "c_block" /\ Len(comment_lines_trimmed) >= 1 /\ malformed_lines = {}) => out.ok

\* C8: the comment format_c_block_comment returns is accepted by
\* format_c_block_comment, and its content lines are the lines the engine
\* gave.  The code breaks the first part: two backtick tokens wrapped
\* onto two lines come back as an empty preformatted block, which the
\* parser fails on.
RoundTrip ==
    op = "c_block_again" =>
        /\ out2.ok
        /\ c_block_content_lines(splitlines(out.text), 1, <<>>)
               = [ok |-> TRUE, lines |-> formatted.lines]

\* what the code keeps of the round trip: the content lines of the
\* returned comment are the lines the engine gave
EnvelopeStripped ==
    (op \in {"c_block", "c_block_again"} /\ out.ok) =>
        c_block_content_lines(splitlines(out.text), 1, <<>>)
            = [ok |-> TRUE, lines |-> formatted.lines]

----------------------------------------------------------------------------
(* Properties of the parser *)

\* C12: the parser returns a list of elements for every sequence of lines.
\* The code breaks this: a delimiter line followed by the same delimiter,
\* by blank lines only or by the end of the lines leaves
\* _try_parse_delim_block with no content line, and
\* _remove_trailing_empty_lines raises.
ParserTotal == op = "format" => parsed.ok

\* the rules that `for func in funcs` tries from rule i on, with the cursor
\* at `at`, leave the cursor in place when they return no element
RECURSIVE rules_atomic(_, _, _)
rules_atomic(lines, at, i) ==
    IF i > 14 THEN TRUE
    ELSE Bind(try_rule(i, lines, at), LAMBDA r :
         r.st = "none" => (r.at = at /\ rules_atomic(lines, r.at, i + 1)))

\* rules_atomic in every iteration that the `while True` of _parse makes
\* from the cursor `at` on
RECURSIVE loop_atomic(_, _)
loop_atomic(lines, at) ==
    Bind(skip_empty_lines(lines, at), LAMBDA at1 :
    IF is_done(lines, at1) THEN TRUE
        ELSE /\ rules_atomic(lines, at1, 1)
             /\ Bind(try_rules(lines, at1, 1), LAMBDA r :
                IF r.st = "raise" \/ r.at = at1 THEN TRUE
                    ELSE loop_atomic(lines, r.at)))

delims == {<<"BACKTICK", "BACKTICK", "BACKTICK">>, <<">", ">", ">">>, <<"!", "!", "!">>}

\* C13: every rule that the main loop invokes and that returns no element
\* leaves the cursor at the line it was invoked at; so does the
\* definition-list rule after term lines that no line indented by four
\* spaces follows, and a delimited-block rule invoked at its delimiter
\* never returns no element.
TryParseAtomic ==
    op = "format" =>
        /\ loop_atomic(splitlines(in_text), 0)
        /\ \A at \in rule_positions : \A delim \in delims :
               cur_line(splitlines(in_text), at) = delim
                   => try_parse_delim_block(splitlines(in_text), at, delim).st # "none"

\* the definition-list rule, invoked by the main loop at the first line,
\* took a term line, found no definition and returned no element with the
\* cursor back at the first line; the text was parsed
TermsRestored ==
    /\ op = "format"
    /\ parsed.ok
    /\ Len(splitlines(in_text)) >= 1
    /\ match_dt(splitlines(in_text)[1])
    /\ dl_terms_loop(splitlines(in_text), 0, <<>>).at >= 1
    /\ try_rule(5, splitlines(in_text), 0) = NoMatch(0)
    /\ \A i \in 1..4 : try_rule(i, splitlines(in_text), 0) = NoMatch(0)

\* in every iteration that the `while True` of _parse makes from the cursor
\* `at` on, some rule returns an element and leaves the cursor further
RECURSIVE loop_progress(_, _)
loop_progress(lines, at) ==
    Bind(skip_empty_lines(lines, at), LAMBDA at1 :
    IF is_done(lines, at1) THEN TRUE
        ELSE Bind(try_rules(lines, at1, 1), LAMBDA r :
             r.st = "elem" /\ r.at > at1 /\ loop_progress(lines, r.at)))

\* C19: every iteration of the main loop that starts at a line that is not
\* empty ends with an element from some rule and with the cursor further,
\* so the loop reaches the end of the lines.  The code breaks this at a
\* delimiter line with no content line after it: the rule raises (C12).
ParserProgress ==
    op = "format" => loop_progress(splitlines(in_text), 0)

\* every element of `elems`, at every depth, holds something: a paragraph
\* a token, a list an item, an item and a quotation and a box an element,
\* a preformatted and a verbatim block a line
RECURSIVE payloads_nonempty(_)
payloads_nonempty(elems) ==
    \A i \in 1..Len(elems) :
        CASE elems[i].type = "P" -> Len(elems[i].words) >= 1
          [] elems[i].type \in {"Ul", "Ol", "Dl"} ->
                 /\ Len(elems[i].items) >= 1
                 /\ \A k \in 1..Len(elems[i].items) :
                        /\ Len(elems[i].items[k].elems) >= 1
                        /\ payloads_nonempty(elems[i].items[k].elems)
          [] elems[i].type \in {"Blockquote", "AdmonBox"} ->
                 /\ Len(elems[i].elems) >= 1
                 /\ payloads_nonempty(elems[i].elems)
          [] elems[i].type \in {"Pre", "Verbatim"} -> Len(elems[i].lines) >= 1
          [] OTHER -> TRUE

\* C20: every element of the tree that the parser returns holds something.
\* The code breaks this: a line of spaces gives a paragraph with no token,
\* and a lone ">" gives a quotation with no element.
PayloadsNonEmpty ==
    (op = "format" /\ parsed.ok) => payloads_nonempty(parsed.elems)

\* a rule invoked with the cursor at `at` left it, when it returned, no
\* lower and no further than the number of lines
cursor_in(lines, at, r) == r.st # "raise" => (at <= r.at /\ r.at <= Len(lines))

\* the rules that `for func in funcs` tries from rule i on are invoked
\* with a current line to read and leave the cursor in its bounds
RECURSIVE rules_in_bounds(_, _, _)
rules_in_bounds(lines, at, i) ==
    IF i > 14 THEN TRUE
    ELSE /\ 0 <= at /\ at < Len(lines)
         /\ Bind(try_rule(i, lines, at), LAMBDA r :
            /\ cursor_in(lines, at, r)
            /\ r.st = "none" => rules_in_bounds(lines, r.at, i + 1))

\* rules_in_bounds in every iteration that the `while True` of _parse makes
\* from the cursor `at` on, the cursor never lower from one iteration to
\* the next
RECURSIVE loop_in_bounds(_, _)
loop_in_bounds(lines, at) ==
    Bind(skip_empty_lines(lines, at), LAMBDA at1 :
    /\ at <= at1 /\ at1 <= Len(lines)
    /\ IF is_done(lines, at1) THEN TRUE
           ELSE /\ rules_in_bounds(lines, at1, 1)
                /\ Bind(try_rules(lines, at1, 1), LAMBDA r :
                   IF r.st = "raise" \/ r.at <= at1 THEN r.st = "raise" \/ r.at = at1
                       ELSE loop_in_bounds(lines, r.at)))

\* C21: the cursor starts at 0 and stays between 0 and the number of
\* lines: every rule that the main loop invokes finds the cursor at a line
\* and leaves it, when it returns, no lower than it found it and no
\* further than the number of lines, also after the two-line advance of
\* an underlined heading and at the last line; so do the item rules of the
\* three lists at every line that is not empty, and the term lines that
\* the definition-list rule passes before it restores the cursor end no
\* further than the number of lines.
CursorBounds ==
    op = "format" =>
        /\ loop_in_bounds(splitlines(in_text), 0)
        /\ \A at \in rule_positions :
               /\ cursor_in(splitlines(in_text), at, try_parse_ul_item(splitlines(in_text), at))
               /\ cursor_in(splitlines(in_text), at, try_parse_ol_item(splitlines(in_text), at))
               /\ cursor_in(splitlines(in_text), at, try_parse_dl_item(splitlines(in_text), at))
               /\ dl_terms_loop(splitlines(in_text), at, <<>>).at >= at
               /\ dl_terms_loop(splitlines(in_text), at, <<>>).at <= Len(splitlines(in_text))

\* the main loop, two lines before the end of a text that is parsed, got a
\* heading from its underline and went to the end with the two-line
\* advance; the rule was invoked on the last line as well, for another text
HeadingAtEnd ==
    /\ op = "format"
    /\ parsed.ok
    /\ Len(splitlines(in_text)) = 3
    /\ try_rules(splitlines(in_text), 0, 1).at = 1
    /\ match_underline(splitlines(in_text)[3], "HEAVY")
    /\ try_rule(1, splitlines(in_text), 1).st = "elem"
    /\ try_rule(1, splitlines(in_text), 1).at = 3
    /\ parsed.elems[Len(parsed.elems)].type = "H1"

----------------------------------------------------------------------------
(* Properties of list markers *)

\* the marker of the item number i in an ordered list of n items: i and
\* ".", right-aligned to the digits of n and the "."
aligned_marker(i, n) == Append(rjust_int(i, Len(int_str(n))), ".")

\* C14: in an ordered list of N one-line items at the top level, the line
\* of the item number i starts with i and ".", right-aligned to the number
\* of digits of N plus one, so all the items are indented alike.  The code
\* breaks this for N = 10: _make_ol_item_num takes the width from
\* len(ol.items) - 1.
OlMarkersAligned ==
    (op = "format" /\ parsed.ok /\ Len(parsed.elems) = 1 /\ parsed.elems[1].type = "Ol")
        => /\ formatted.ok
           /\ Len(formatted.lines) = Len(parsed.elems[1].items)
           /\ \A i \in 1..Len(formatted.lines) :
                  formatted.lines[i]
                      = aligned_marker(i, Len(parsed.elems[1].items)) \o <<" ", "a">>

bullet_glyphs == <<"BULLET", "TRIBULLET", "HYBULLET">>

is_bullet_glyph(c) == c \in {bullet_glyphs[k] : k \in 1..3}

\* the bullet glyphs of `lines`, in the order of the lines and of the
\* characters of a line
RECURSIVE glyphs_of_lines(_)
glyphs_of_lines(lines) ==
    IF Len(lines) = 0 THEN <<>>
    ELSE SelectSeq(Head(lines), is_bullet_glyph) \o glyphs_of_lines(Tail(lines))

\* the glyphs that the items of the unordered lists of `elems` are due, in
\* the order of the text: d counts the unordered lists around `elems`, and
\* only_ul tells that no other construct adds to it
RECURSIVE glyphs_due(_, _, _)
RECURSIVE glyphs_due_items(_, _, _, _)
glyphs_due_items(items, k, d, only_ul) ==
    IF k > Len(items) THEN <<>>
    ELSE glyphs_due(items[k].elems, d, only_ul) \o glyphs_due_items(items, k + 1, d, only_ul)

RECURSIVE glyphs_due_ul_items(_, _, _, _)
glyphs_due_ul_items(items, k, d, only_ul) ==
    IF k > Len(items) THEN <<>>
    ELSE <<bullet_glyphs[(d % 3) + 1]>>
             \o glyphs_due(items[k].elems, d + 1, only_ul)
             \o glyphs_due_ul_items(items, k + 1, d, only_ul)

glyphs_due(elems, d, only_ul) ==
    IF Len(elems) = 0 THEN <<>>
    ELSE (CASE Head(elems).type = "Ul" -> glyphs_due_ul_items(Head(elems).items, 1, d, only_ul)
            [] Head(elems).type \in {"Ol", "Dl"} ->
                   glyphs_due_items(Head(elems).items, 1, IF only_ul THEN d ELSE d + 1, only_ul)
            [] Head(elems).type \in {"Blockquote", "AdmonBox"} ->
                   glyphs_due(Head(elems).elems, IF only_ul THEN d ELSE d + 1, only_ul)
            [] OTHER -> <<>>)
         \o glyphs_due(Tail(elems), d, only_ul)

\* the fields of the formatter that FormatElems constructs
elems_self ==
    [max_line_len |-> in_max_line_len,
     cur_ul_level |-> in_cur_ul_level,
     cur_ol_level |-> in_cur_ol_level]

\* C15: the glyphs of the rendered lines are, in order, those of the items
\* of the unordered lists of the tree, each the (d mod 3)-th of the three
\* glyphs for d the number of unordered lists around its list (those
\* around the formatter, in_cur_ul_level + 1, and those of the tree),
\* whatever ordered lists, definitions, quotations and boxes lie in
\* between; and rendering any element of the tree, and the whole tree,
\* leaves both level counters at the value they had.
NestingCounters ==
    (op = "format_elems" /\ formatted.ok) =>
        /\ glyphs_of_lines(formatted.lines)
               = glyphs_due(parsed.elems, in_cur_ul_level + 1, TRUE)
        /\ formatted.self = elems_self
        /\ \A i \in 1..Len(parsed.elems) :
               elem_lines(elems_self, parsed.elems[i]).self = elems_self

\* a rendered text inside three unordered lists with two unordered lists
\* side by side, in which the first glyph is due again and the second one
\* for a list in those, and some unordered list lies in another construct
\* (counting that construct would give other glyphs)
NestedGlyphsRendered ==
    /\ op = "format_elems"
    /\ formatted.ok
    /\ in_cur_ul_level = 2
    /\ Len(SelectSeq(parsed.elems, LAMBDA e : e.type = "Ul")) >= 2
    /\ \A k \in 1..2 : Len(SelectSeq(glyphs_of_lines(formatted.lines),
                                     LAMBDA c : c = bullet_glyphs[k])) >= 1
    /\ glyphs_due(parsed.elems, in_cur_ul_level + 1, TRUE)
           # glyphs_due(parsed.elems, in_cur_ul_level + 1, FALSE)

----------------------------------------------------------------------------
(* Properties of headings *)

\* the text line and the underline that are due for the heading `h`
heading_text_line(h) == IF h.type = "H1" THEN upper(h.text) ELSE h.text

heading_underline_ch(h) == IF h.type = "H1" THEN "HEAVY" ELSE "LIGHT"

\* C16: a text that is parsed to one heading is rendered as the text line
\* (upper-cased at level 1, as the final pass leaves it) and an underline of the heading's character
\* as long as the text line as emitted.  The code breaks this for a
\* heading text that ends with spaces: the underline is made for the text
\* with its spaces, and the final pass strips them from the text line.
HeadingUnderline ==
    (op = "format" /\ parsed.ok /\ Len(parsed.elems) = 1
        /\ parsed.elems[1].type \in {"H1", "H2"})
        => /\ formatted.ok
           /\ Len(formatted.lines) = 2
           /\ formatted.lines[1] = rstrip(heading_text_line(parsed.elems[1]))
           /\ formatted.lines[2]
                  = str_mul(heading_underline_ch(parsed.elems[1]), Len(formatted.lines[1]))

----------------------------------------------------------------------------
(* Properties of box-drawn admonitions *)

\* the text opens a box: a top-left corner line, then a tag line
box_opened ==
    /\ Len(splitlines(in_text)) >= 2
    /\ startswith(splitlines(in_text)[1], <<"TL">>)
    /\ match_admon_tag_line(splitlines(in_text)[2])

\* the index of the first line from i on that starts with the bottom-left
\* corner, or the number of lines plus one
RECURSIVE box_closing(_, _)
box_closing(lines, i) ==
    IF i > Len(lines) \/ startswith(lines[i], <<"BL">>) THEN i
    ELSE box_closing(lines, i + 1)

\* the lines of the box from the tag line to the line before the closing
box_interior == SubSeq(splitlines(in_text), 2, box_closing(splitlines(in_text), 2) - 1)

\* the text of a line that starts with a border, between its borders: the
\* line without its first border, without its last one when it has one and
\* without the space that pads it on the left, right-stripped
drop_last_border(s) ==
    IF Len(s) >= 1 /\ s[Len(s)] = "VBAR" THEN SubSeq(s, 1, Len(s) - 1) ELSE s

drop_pad(s) == IF Len(s) >= 1 /\ s[1] = " " THEN Tail(s) ELSE s

between_borders(s) == rstrip(drop_pad(drop_last_border(Tail(s))))

\* C17: when the text opens a box, each line from the tag line to the line
\* before the closing one gives one line of the body that is parsed: its
\* text between the borders when it starts with a border, the empty line
\* when it is blank; no line is consumed without giving a line.  The code
\* breaks this: a line that does not match r'[<VBAR> ] ' is consumed and
\* gives nothing.
BoxLinesContribute ==
    (op = "format" /\ box_opened) =>
        /\ Len(admon_box_loop(splitlines(in_text), 1, <<>>).lines) = Len(box_interior)
        /\ \A i \in 1..Len(box_interior) :
               /\ startswith(box_interior[i], <<"VBAR">>)
                      => admon_box_loop(splitlines(in_text), 1, <<>>).lines[i]
                             = between_borders(box_interior[i])
               /\ box_interior[i] = <<>>
                      => admon_box_loop(splitlines(in_text), 1, <<>>).lines[i] = <<>>

----------------------------------------------------------------------------
(* Properties of verbatim blocks *)

\* C18: a text that is one run of verbatim lines (the parser gives one
\* verbatim block that holds all its lines) is rendered as its own lines,
\* character for character.  The code breaks this for a verbatim line that
\* ends with spaces: the final pass strips them.
VerbatimPassThrough ==
    (op = "format" /\ parsed.ok /\ Len(parsed.elems) = 1
        /\ parsed.elems[1].type = "Verbatim"
        /\ parsed.elems[1].lines = splitlines(in_text))
        => /\ formatted.ok
           /\ formatted.lines = splitlines(in_text)

====
